---- MODULE Spec2Model ----
(***************************************************************************)
(* Storage layer of the NFT marketplace contract (src/src/state.rs):       *)
(* the Ask and Bid IndexedMaps with their MultiIndex secondary indices,    *)
(* the three hook registries, the SudoParams item, and the                  *)
(* Order::is_expired predicate.                                            *)
(*                                                                         *)
(* An IndexedMap is modelled as the storage it writes: one primary table   *)
(* (key -> record) and, per MultiIndex, the set of its index-map keys      *)
(* <<index value, primary key>>.  Scans iterate an index in the byte order *)
(* of the encoded keys.                                                    *)
(***************************************************************************)
EXTENDS Integers, Sequences, FiniteSets, TLC

VARIABLES askStore, askIdx, bidStore, bidIdx, hooks, sudoParams, probe, last

vars == <<askStore, askIdx, bidStore, bidIdx, hooks, sudoParams, probe, last>>

(***************************************************************************)
(* Bounds of the model.                                                    *)
(***************************************************************************)
MaxAsks == 2          \* at most this many Asks are stored at once
MaxBids == 2          \* at most this many Bids are stored at once
MaxListeners == 2     \* listener addresses offered to the hook registries

Addrs == {1, 2}
Listeners == 1..MaxListeners
Collections == {1, 2}
TokenIds == {1, 2}
Prices == {9, 10}

NanosPerSecond == 1000000000
Expiries == {NanosPerSecond, NanosPerSecond + 500000000, 2 * NanosPerSecond}
BlockTimes == Expiries \cup {500000000, 2 * NanosPerSecond + 100000000}

(***************************************************************************)
(* Option<T> is a sequence of length at most one.                          *)
(***************************************************************************)
None == <<>>
Some(x) == <<x>>

(***************************************************************************)
(* Records.                                                                *)
(***************************************************************************)
SaleType == {"FixedPrice", "Auction"}

AskExtras ==
    { [sale_type |-> "FixedPrice", funds_recipient |-> None, reserve_for |-> None,
       finders_fee_bps |-> None, expires_at |-> NanosPerSecond, is_active |-> TRUE],
      [sale_type |-> "Auction", funds_recipient |-> Some(1), reserve_for |-> Some(2),
       finders_fee_bps |-> Some(100), expires_at |-> 2 * NanosPerSecond,
       is_active |-> FALSE] }

Ask(c, t, s, p, x) ==
    [sale_type |-> x.sale_type, collection |-> c, token_id |-> t, seller |-> s,
     price |-> p, funds_recipient |-> x.funds_recipient, reserve_for |-> x.reserve_for,
     finders_fee_bps |-> x.finders_fee_bps, expires_at |-> x.expires_at,
     is_active |-> x.is_active]

AskInputs ==
    { Ask(c, t, s, p, x) : c \in Collections, t \in TokenIds, s \in Addrs,
                           p \in Prices, x \in AskExtras }

Bid(c, t, b, p, f, e) ==
    [collection |-> c, token_id |-> t, bidder |-> b, price |-> p,
     finders_fee_bps |-> f, expires_at |-> e]

\* The <<price, expires_at>> pairs bids are placed with.
BidTerms ==
    { <<9, NanosPerSecond>>, <<10, NanosPerSecond + 500000000>>,
      <<9, 2 * NanosPerSecond>> }

BidInputs ==
    { Bid(c, t, b, pe[1], None, pe[2]) : c \in Collections, t \in TokenIds,
                                         b \in Addrs, pe \in BidTerms }

(***************************************************************************)
(* Primary keys.                                                           *)
(***************************************************************************)
ask_key_first_token(collection, token_id) == <<collection, 1>>

ask_key(collection, token_id) == <<collection, token_id>>

bid_key_without_bidder(collection, token_id, bidder) == <<collection, token_id, 1>>

bid_key(collection, token_id, bidder) == <<collection, token_id, bidder>>

AskKeys == { ask_key(c, t) : c \in Collections, t \in TokenIds }
BidKeys == { bid_key(c, t, b) : c \in Collections, t \in TokenIds, b \in Addrs }

(***************************************************************************)
(* Order::is_expired.                                                      *)
(***************************************************************************)
expires_at(order) == order.expires_at

is_expired_strict(order, blockTime) == expires_at(order) < blockTime

is_expired(order, blockTime) == expires_at(order) <= blockTime

(***************************************************************************)
(* Timestamp::seconds, as used by the bidder_expires_at index.             *)
(***************************************************************************)
seconds_as_nanos(ts) == ts

seconds(ts) == ts \div NanosPerSecond

(***************************************************************************)
(* Ask indices: the index functions given to MultiIndex::new in asks(),    *)
(* and the list of indices the IndexedMap maintains.                       *)
(***************************************************************************)
AskIndexFields == {"collection", "collection_price", "seller"}

asks_collection(pk, d) == d.collection

asks_collection_token(pk, d) == <<d.collection, d.token_id>>

asks_collection_price(pk, d) == <<d.collection, d.price>>

asks_seller_active(pk, d) == <<d.seller, d.is_active>>

asks_seller(pk, d) == d.seller

AskIndexFn(name, pk, d) ==
    CASE name = "collection" -> asks_collection(pk, d)
      [] name = "collection_price" -> asks_collection_price(pk, d)
      [] name = "seller" -> asks_seller(pk, d)

AskIndicies_without_seller == <<"collection", "collection_price">>

AskIndicies_get_indexes == <<"collection", "collection_price", "seller">>

(***************************************************************************)
(* Bid indices.                                                            *)
(***************************************************************************)
BidIndexFields ==
    {"collection", "collection_token_id", "collection_price", "bidder",
     "bidder_expires_at"}

bids_collection(pk, d) == d.collection

bids_collection_token_id(pk, d) == <<d.collection, d.token_id>>

bids_collection_bidder(pk, d) == <<d.collection, d.bidder>>

bids_collection_price(pk, d) == <<d.collection, d.price>>

bids_bidder_by_collection(pk, d) == d.collection

bids_bidder(pk, d) == d.bidder

bids_bidder_expires_at(pk, d) == <<d.bidder, seconds(d.expires_at)>>

BidIndexFn(name, pk, d) ==
    CASE name = "collection" -> bids_collection(pk, d)
      [] name = "collection_token_id" -> bids_collection_token_id(pk, d)
      [] name = "collection_price" -> bids_collection_price(pk, d)
      [] name = "bidder" -> bids_bidder(pk, d)
      [] name = "bidder_expires_at" -> bids_bidder_expires_at(pk, d)

BidIndicies_without_bidder_expires_at ==
    <<"collection", "collection_token_id", "collection_price", "bidder">>

BidIndicies_get_indexes ==
    <<"collection", "collection_token_id", "collection_price", "bidder",
      "bidder_expires_at">>

(***************************************************************************)
(* IndexedMap engine.  A MultiIndex stores, per record, the key            *)
(* <<index value, primary key>>; save and remove of the IndexedMap go      *)
(* through replace, which retracts the old record's entry from every index *)
(* of get_indexes, then inserts the new record's entries and writes the    *)
(* primary table.                                                          *)
(***************************************************************************)
may_load(store, key) == IF key \in DOMAIN store THEN Some(store[key]) ELSE None

MultiIndex_save(entries, ik, pk) == entries \cup {<<ik, pk>>}

MultiIndex_remove_nothing(entries, ik, pk) == entries

MultiIndex_remove(entries, ik, pk) == entries \ {<<ik, pk>>}

primary_save(store, key, data) ==
    [k \in DOMAIN store \cup {key} |-> IF k = key THEN data ELSE store[k]]

primary_remove(store, key) == [k \in DOMAIN store \ {key} |-> store[k]]

\* The index function of the named index of the IndexedMap with the given
\* namespace ("asks" or "bids").
IndexFn(map, name, pk, d) ==
    IF map = "asks" THEN AskIndexFn(name, pk, d) ELSE BidIndexFn(name, pk, d)

RECURSIVE IndexesRemove(_, _, _, _, _, _)
IndexesRemove(idx, map, indexes, pk, old, i) ==
    IF i > Len(indexes) THEN idx
    ELSE LET name == indexes[i]
         IN  IndexesRemove(
                 [idx EXCEPT ![name] = MultiIndex_remove(@, IndexFn(map, name, pk, old), pk)],
                 map, indexes, pk, old, i + 1)

RECURSIVE IndexesSave(_, _, _, _, _, _)
IndexesSave(idx, map, indexes, pk, data, i) ==
    IF i > Len(indexes) THEN idx
    ELSE LET name == indexes[i]
         IN  IndexesSave(
                 [idx EXCEPT ![name] = MultiIndex_save(@, IndexFn(map, name, pk, data), pk)],
                 map, indexes, pk, data, i + 1)

\* IndexedMap::replace: the index tables after the call.
replace_idx(idx, map, indexes, key, data, old_data) ==
    LET retracted == IF old_data # None
                     THEN IndexesRemove(idx, map, indexes, key, old_data[1], 1)
                     ELSE idx
    IN  IF data # None
        THEN IndexesSave(retracted, map, indexes, key, data[1], 1)
        ELSE retracted

\* IndexedMap::replace: the primary table after the call.
replace_primary(store, key, data) ==
    IF data # None THEN primary_save(store, key, data[1])
    ELSE primary_remove(store, key)

(***************************************************************************)
(* Storage keys.  Integers are stored big-endian at their fixed width; in  *)
(* a composite key every component but the last carries a two-byte length  *)
(* prefix.  A MultiIndex key is the index value (every component           *)
(* length-prefixed) followed by the primary key.  Address i stands for a   *)
(* one-byte string.                                                        *)
(***************************************************************************)
RECURSIVE BigEndian(_, _)
BigEndian(n, width) ==
    IF width = 0 THEN <<>> ELSE Append(BigEndian(n \div 256, width - 1), n % 256)

AddrKey(a) == <<a>>

U32Key(n) == BigEndian(n, 4)

U64Key(n) == BigEndian(n, 8)

U128Key(n) == BigEndian(n, 16)

LenPrefix(bytes) == BigEndian(Len(bytes), 2) \o bytes

AskKeyBytes(pk) == LenPrefix(AddrKey(pk[1])) \o U32Key(pk[2])

BidKeyBytes(pk) == LenPrefix(AddrKey(pk[1])) \o LenPrefix(U32Key(pk[2])) \o AddrKey(pk[3])

\* The encoded index value of an entry of the named Ask index.
AskIndexValueBytes(name, ik) ==
    CASE name = "collection" -> LenPrefix(AddrKey(ik))
      [] name = "collection_price" -> LenPrefix(AddrKey(ik[1])) \o LenPrefix(U128Key(ik[2]))
      [] name = "seller" -> LenPrefix(AddrKey(ik))

\* The encoded index value of an entry of the named Bid index.
BidIndexValueBytes(name, ik) ==
    CASE name = "collection" -> LenPrefix(AddrKey(ik))
      [] name = "collection_token_id" -> LenPrefix(AddrKey(ik[1])) \o LenPrefix(U32Key(ik[2]))
      [] name = "collection_price" -> LenPrefix(AddrKey(ik[1])) \o LenPrefix(U128Key(ik[2]))
      [] name = "bidder" -> LenPrefix(AddrKey(ik))
      [] name = "bidder_expires_at" -> LenPrefix(AddrKey(ik[1])) \o LenPrefix(U64Key(ik[2]))

AskIndexKeyBytes(name, e) == AskIndexValueBytes(name, e[1]) \o AskKeyBytes(e[2])

BidIndexKeyBytes(name, e) == BidIndexValueBytes(name, e[1]) \o BidKeyBytes(e[2])

IsPrefix(p, s) == Len(p) <= Len(s) /\ \A i \in 1..Len(p) : s[i] = p[i]

\* Byte-wise lexicographic order of storage keys.
RECURSIVE BytesLess(_, _)
BytesLess(a, b) ==
    IF b = <<>> THEN FALSE
    ELSE IF a = <<>> THEN TRUE
    ELSE IF a[1] # b[1] THEN a[1] < b[1]
    ELSE BytesLess(Tail(a), Tail(b))

\* The storage iterator over a set of <<key bytes, entry>> pairs: the entries
\* in ascending order of their keys.
RECURSIVE Ascending(_)
Ascending(keyed) ==
    IF keyed = {} THEN <<>>
    ELSE LET first == CHOOSE e \in keyed :
                          \A f \in keyed \ {e} : ~BytesLess(f[1], e[1])
         IN  <<first[2]>> \o Ascending(keyed \ {first})

\* index.prefix(..) / index.sub_prefix(..) range: the entries of the named
\* index whose key starts with the given bytes, in key order.
AskScan(idx, name, prefix) ==
    Ascending({ke \in {<<AskIndexKeyBytes(name, e), e>> : e \in idx[name]} :
                  IsPrefix(prefix, ke[1])})

BidScan(idx, name, prefix) ==
    Ascending({ke \in {<<BidIndexKeyBytes(name, e), e>> : e \in idx[name]} :
                  IsPrefix(prefix, ke[1])})

\* The primary keys a scan yields.
ScanKeys(scan) == {scan[i][2] : i \in 1..Len(scan)}

(***************************************************************************)
(* The storage namespaces asks() and bids() give to the primary tables and *)
(* to each MultiIndex.                                                     *)
(***************************************************************************)
asks_namespaces ==
    [pk |-> "asks", collection |-> "asks__collection",
     collection_price |-> "asks__collection_price", seller |-> "asks__seller"]

bids_namespaces ==
    [pk |-> "bids", collection |-> "bids__collection",
     collection_token_id |-> "bids__collection_token_id",
     collection_price |-> "bids__collection_price", bidder |-> "bids__bidder",
     bidder_expires_at |-> "bids__bidder_expires_at"]

Namespaces(f) == {f[x] : x \in DOMAIN f}

(***************************************************************************)
(* The hook registries and the storage name each is created with.          *)
(***************************************************************************)
ASK_HOOKS == "ask-hooks"

BID_HOOKS_in_ask_hooks == "ask-hooks"

BID_HOOKS == "bid-hooks"

SALE_HOOKS == "sale-hooks"

HookRegistries == {"ASK_HOOKS", "BID_HOOKS", "SALE_HOOKS"}

HookNamespace(registry) ==
    CASE registry = "ASK_HOOKS" -> ASK_HOOKS
      [] registry = "BID_HOOKS" -> BID_HOOKS
      [] registry = "SALE_HOOKS" -> SALE_HOOKS

(***************************************************************************)
(* Initial state: empty storage.                                           *)
(***************************************************************************)
EmptyFn == [k \in {} |-> 0]

NoOp == [op |-> "none", arg |-> None, old |-> None, result |-> "none"]
NoProbe == [order |-> None, time |-> 0, out |-> None]

StoreInit ==
    /\ askStore = EmptyFn
    /\ askIdx = [n \in AskIndexFields |-> {}]
    /\ bidStore = EmptyFn
    /\ bidIdx = [n \in BidIndexFields |-> {}]
    /\ hooks = [ns \in {HookNamespace(r) : r \in HookRegistries} |-> None]
    /\ sudoParams = None
    /\ last = NoOp

Init == StoreInit /\ probe = NoProbe

(***************************************************************************)
(* Ask store operations.                                                   *)
(***************************************************************************)
\* asks().save(store, ask_key(&ask.collection, ask.token_id), &ask)
SaveAsk(ask) ==
    LET key == ask_key(ask.collection, ask.token_id)
        old_data == may_load(askStore, key)
    IN  /\ key \in DOMAIN askStore \/ Cardinality(DOMAIN askStore) < MaxAsks
        /\ askIdx' = replace_idx(askIdx, "asks", AskIndicies_get_indexes,
                                 key, Some(ask), old_data)
        /\ askStore' = replace_primary(askStore, key, Some(ask))
        /\ last' = [op |-> "asks.save", arg |-> Some(ask), old |-> old_data,
                   result |-> "Ok"]
        /\ UNCHANGED <<bidStore, bidIdx, hooks, sudoParams, probe>>

\* asks().remove(store, key)
RemoveAsk(key) ==
    LET old_data == may_load(askStore, key)
    IN  /\ askIdx' = replace_idx(askIdx, "asks", AskIndicies_get_indexes,
                                 key, None, old_data)
        /\ askStore' = replace_primary(askStore, key, None)
        /\ last' = [op |-> "asks.remove", arg |-> Some(key), old |-> old_data,
                   result |-> "Ok"]
        /\ UNCHANGED <<bidStore, bidIdx, hooks, sudoParams, probe>>

AskNext ==
    \/ \E ask \in AskInputs : SaveAsk(ask)
    \/ \E key \in AskKeys : RemoveAsk(key)

AskSpec == Init /\ [][AskNext]_vars

(***************************************************************************)
(* Bid store operations.                                                   *)
(***************************************************************************)
\* bids().save(store, bid_key(&bid.collection, bid.token_id, &bid.bidder), &bid)
SaveBid(bid) ==
    LET key == bid_key(bid.collection, bid.token_id, bid.bidder)
        old_data == may_load(bidStore, key)
    IN  /\ key \in DOMAIN bidStore \/ Cardinality(DOMAIN bidStore) < MaxBids
        /\ bidIdx' = replace_idx(bidIdx, "bids", BidIndicies_get_indexes,
                                 key, Some(bid), old_data)
        /\ bidStore' = replace_primary(bidStore, key, Some(bid))
        /\ last' = [op |-> "bids.save", arg |-> Some(bid), old |-> old_data,
                   result |-> "Ok"]
        /\ UNCHANGED <<askStore, askIdx, hooks, sudoParams, probe>>

\* bids().remove(store, key)
RemoveBid(key) ==
    LET old_data == may_load(bidStore, key)
    IN  /\ bidIdx' = replace_idx(bidIdx, "bids", BidIndicies_get_indexes,
                                 key, None, old_data)
        /\ bidStore' = replace_primary(bidStore, key, None)
        /\ last' = [op |-> "bids.remove", arg |-> Some(key), old |-> old_data,
                   result |-> "Ok"]
        /\ UNCHANGED <<askStore, askIdx, hooks, sudoParams, probe>>

BidNext ==
    \/ \E bid \in BidInputs : SaveBid(bid)
    \/ \E key \in BidKeys : RemoveBid(key)

BidSpec == Init /\ [][BidNext]_vars

(***************************************************************************)
(* Hook registries (ASK_HOOKS, BID_HOOKS, SALE_HOOKS).  A registry is an   *)
(* Item holding a list of addresses; None is the Item never saved.         *)
(***************************************************************************)
Contains(list, a) == \E i \in 1..Len(list) : list[i] = a

Position(list, a) == CHOOSE i \in 1..Len(list) : list[i] = a /\ \A j \in 1..(i - 1) : list[j] # a

RemoveAt(list, p) == [i \in 1..(Len(list) - 1) |-> IF i < p THEN list[i] ELSE list[i + 1]]

\* The listeners of a registry Item (may_load, default empty).
HookList(item) == IF item = None THEN <<>> ELSE item[1]

add_hook_unchecked(list, addr) == [result |-> "Ok", save |-> Some(Append(list, addr))]

add_hook_capped(list, addr) ==
    IF Contains(list, addr) THEN [result |-> "HookAlreadyRegistered", save |-> None]
    ELSE IF Len(list) >= 1 THEN [result |-> "CapacityExceeded", save |-> None]
    ELSE [result |-> "Ok", save |-> Some(Append(list, addr))]

\* Hooks::add_hook: the result and the list to save (None: nothing saved).
add_hook(list, addr) ==
    IF ~Contains(list, addr)
    THEN [result |-> "Ok", save |-> Some(Append(list, addr))]
    ELSE [result |-> "HookAlreadyRegistered", save |-> None]

\* Hooks::remove_hook on the stored Item.
remove_hook(item, addr) ==
    IF item = None THEN [result |-> "NotFound", save |-> None]
    ELSE IF Contains(item[1], addr)
         THEN [result |-> "Ok", save |-> Some(RemoveAt(item[1], Position(item[1], addr)))]
         ELSE [result |-> "HookNotRegistered", save |-> None]

AddHook(h, addr) ==
    LET r == add_hook(HookList(hooks[HookNamespace(h)]), addr)
    IN  /\ hooks' = IF r.save # None THEN [hooks EXCEPT ![HookNamespace(h)] = r.save] ELSE hooks
        /\ last' = [op |-> "add_hook", arg |-> Some(<<h, addr>>), old |-> hooks[HookNamespace(h)],
                   result |-> r.result]
        /\ UNCHANGED <<askStore, askIdx, bidStore, bidIdx, sudoParams, probe>>

RemoveHook(h, addr) ==
    LET r == remove_hook(hooks[HookNamespace(h)], addr)
    IN  /\ hooks' = IF r.save # None THEN [hooks EXCEPT ![HookNamespace(h)] = r.save] ELSE hooks
        /\ last' = [op |-> "remove_hook", arg |-> Some(<<h, addr>>), old |-> hooks[HookNamespace(h)],
                   result |-> r.result]
        /\ UNCHANGED <<askStore, askIdx, bidStore, bidIdx, sudoParams, probe>>

HookNext ==
    \/ \E h \in HookRegistries, a \in Listeners : AddHook(h, a)
    \/ \E h \in HookRegistries, a \in Listeners : RemoveHook(h, a)

HookSpec == Init /\ [][HookNext]_vars

(***************************************************************************)
(* is_expired applied to any Ask or Bid at any block time.                 *)
(***************************************************************************)
Orders == AskInputs \cup BidInputs

ExpiredInit ==
    /\ StoreInit
    /\ probe \in [order : {Some(o) : o \in Orders}, time : BlockTimes, out : {None}]

CheckExpired ==
    /\ probe.order # None
    /\ probe.out = None
    /\ probe' = [probe EXCEPT !.out = Some(is_expired(probe.order[1], probe.time))]
    /\ UNCHANGED <<askStore, askIdx, bidStore, bidIdx, hooks, sudoParams, last>>

ExpiredSpec == ExpiredInit /\ [][CheckExpired]_vars

(***************************************************************************)
(* Both stores together, on a core of the inputs.                          *)
(***************************************************************************)
CoreExtra ==
    [sale_type |-> "FixedPrice", funds_recipient |-> None, reserve_for |-> None,
     finders_fee_bps |-> None, expires_at |-> NanosPerSecond, is_active |-> TRUE]

CoreAsks == { Ask(c, t, 1, p, CoreExtra) : c \in Collections, t \in TokenIds, p \in Prices }

CoreBids == { Bid(c, 1, b, p, None, NanosPerSecond) : c \in Collections, b \in Addrs, p \in Prices }

StoreNext ==
    \/ \E ask \in CoreAsks : SaveAsk(ask)
    \/ \E key \in AskKeys : RemoveAsk(key)
    \/ \E bid \in CoreBids : SaveBid(bid)
    \/ \E c \in Collections, b \in Addrs : RemoveBid(bid_key(c, 1, b))

StoreSpec == Init /\ [][StoreNext]_vars

(***************************************************************************)
(* Loads.  IndexedMap::load fails with NotFound on a key without a record. *)
(***************************************************************************)
load_or_default(store, key) == [result |-> "Ok", value |-> may_load(store, key)]

load(store, key) ==
    IF key \in DOMAIN store THEN [result |-> "Ok", value |-> Some(store[key])]
    ELSE [result |-> "NotFound", value |-> None]

\* asks().load(store, key)
LoadAsk(key) ==
    LET r == load(askStore, key)
    IN  /\ last' = [op |-> "asks.load", arg |-> Some(key), old |-> r.value,
                   result |-> r.result]
        /\ UNCHANGED <<askStore, askIdx, bidStore, bidIdx, hooks, sudoParams, probe>>

\* bids().load(store, key)
LoadBid(key) ==
    LET r == load(bidStore, key)
    IN  /\ last' = [op |-> "bids.load", arg |-> Some(key), old |-> r.value,
                   result |-> r.result]
        /\ UNCHANGED <<askStore, askIdx, bidStore, bidIdx, hooks, sudoParams, probe>>

(***************************************************************************)
(* A call that raises an error part-way through its writes.  The call runs *)
(* in a transaction: its writes are staged and become the storage only     *)
(* when the call succeeds.                                                 *)
(***************************************************************************)
transaction_keeps_writes(before, staged, result) == staged

transaction(before, staged, result) == IF result = "Ok" THEN staged ELSE before

\* The index tables of a save that has retracted the old record from every
\* index and written the first n indices of get_indexes when the error is
\* raised.
staged_idx(idx, map, indexes, key, data, old_data, n) ==
    LET retracted == IF old_data # None
                     THEN IndexesRemove(idx, map, indexes, key, old_data[1], 1)
                     ELSE idx
    IN  IndexesSave(retracted, map, SubSeq(indexes, 1, n), key, data[1], 1)

\* asks().save(..) failing after n index writes, before the primary write.
AbortedSaveAsk(ask, n) ==
    LET key == ask_key(ask.collection, ask.token_id)
        old_data == may_load(askStore, key)
        staged == staged_idx(askIdx, "asks", AskIndicies_get_indexes, key, Some(ask),
                             old_data, n)
    IN  /\ askIdx' = transaction(askIdx, staged, "StdError")
        /\ last' = [op |-> "asks.save", arg |-> Some(ask), old |-> old_data,
                   result |-> "StdError"]
        /\ UNCHANGED <<askStore, bidStore, bidIdx, hooks, sudoParams, probe>>

\* bids().save(..) failing after n index writes, before the primary write.
AbortedSaveBid(bid, n) ==
    LET key == bid_key(bid.collection, bid.token_id, bid.bidder)
        old_data == may_load(bidStore, key)
        staged == staged_idx(bidIdx, "bids", BidIndicies_get_indexes, key, Some(bid),
                             old_data, n)
    IN  /\ bidIdx' = transaction(bidIdx, staged, "StdError")
        /\ last' = [op |-> "bids.save", arg |-> Some(bid), old |-> old_data,
                   result |-> "StdError"]
        /\ UNCHANGED <<askStore, askIdx, bidStore, hooks, sudoParams, probe>>

(***************************************************************************)
(* SUDO_PARAMS: one SudoParams record, written whole by Item::save.        *)
(***************************************************************************)
SudoParams(fee, askRange, bidRange, ops, maxFinders, minPrice, stale, reward, listing) ==
    [trading_fee_percent |-> fee, ask_expiry |-> askRange, bid_expiry |-> bidRange,
     operators |-> ops, max_finders_fee_percent |-> maxFinders, min_price |-> minPrice,
     stale_bid_duration |-> stale, bid_removal_reward_percent |-> reward,
     listing_fee |-> listing]

ParamInputs ==
    { SudoParams(2, <<3600, 2592000>>, <<3600, 2592000>>, <<1>>, 10, 5, 100, 1, 0),
      SudoParams(3, <<60, 86400>>, <<120, 604800>>, <<1, 2>>, 20, 1, 200, 5, 7) }

item_save_patch(item, data) ==
    IF item = None THEN Some(data)
    ELSE Some([data EXCEPT !.operators = item[1].operators])

item_save(item, data) == Some(data)

\* SUDO_PARAMS.save(store, &params)
SaveParams(params) ==
    /\ sudoParams' = item_save(sudoParams, params)
    /\ last' = [op |-> "sudo_params.save", arg |-> Some(params), old |-> sudoParams,
               result |-> "Ok"]
    /\ UNCHANGED <<askStore, askIdx, bidStore, bidIdx, hooks, probe>>

(***************************************************************************)
(* The whole storage layer: every operation, on a small set of inputs.     *)
(***************************************************************************)
SmallAsks == { Ask(1, t, 1, p, CoreExtra) : t \in TokenIds, p \in Prices }

SmallBids == { Bid(1, 1, b, 9, None, NanosPerSecond) : b \in Addrs }

SmallAskKeys == { ask_key(a.collection, a.token_id) : a \in SmallAsks }

SmallBidKeys == { bid_key(b.collection, b.token_id, b.bidder) : b \in SmallBids }

Next ==
    \/ \E ask \in SmallAsks : SaveAsk(ask)
    \/ \E key \in SmallAskKeys : RemoveAsk(key)
    \/ \E key \in SmallAskKeys : LoadAsk(key)
    \/ \E ask \in SmallAsks, n \in 0..2 : AbortedSaveAsk(ask, n)
    \/ \E bid \in SmallBids : SaveBid(bid)
    \/ \E key \in SmallBidKeys : RemoveBid(key)
    \/ \E key \in SmallBidKeys : LoadBid(key)
    \/ \E bid \in SmallBids, n \in 0..4 : AbortedSaveBid(bid, n)
    \/ \E h \in HookRegistries : AddHook(h, 1)
    \/ \E h \in HookRegistries : RemoveHook(h, 1)
    \/ \E params \in ParamInputs : SaveParams(params)

Spec == Init /\ [][Next]_vars

(***************************************************************************)
(* Properties.                                                             *)
(***************************************************************************)
AskIndexValues(name) ==
    CASE name = "collection" -> Collections
      [] name = "collection_price" -> Collections \X Prices
      [] name = "seller" -> Addrs

AskProjection(name, d) ==
    CASE name = "collection" -> d.collection
      [] name = "collection_price" -> <<d.collection, d.price>>
      [] name = "seller" -> d.seller

\* C1: after any sequence of saves and removes on the Ask store, a scan of
\* each of the three indices (collection; (collection, price); seller) at a
\* value v yields exactly the primary keys whose stored Ask projects to v,
\* each once, and no index holds an entry under any other value.
C1_AskScansExact ==
    \A name \in AskIndexFields :
        /\ \A e \in askIdx[name] : e[1] \in AskIndexValues(name)
        /\ \A v \in AskIndexValues(name) :
               LET scan == AskScan(askIdx, name, AskIndexValueBytes(name, v))
               IN  /\ ScanKeys(scan) =
                          {k \in DOMAIN askStore : AskProjection(name, askStore[k]) = v}
                   /\ Len(scan) = Cardinality(ScanKeys(scan))

\* An Ask was re-saved under another seller while a second Ask is stored.
C1_Witness ==
    /\ last.op = "asks.save"
    /\ last.old # None
    /\ last.old[1].seller # last.arg[1].seller
    /\ Cardinality(DOMAIN askStore) = 2

\* C2: every stored Bid has exactly one entry in each of the five indices,
\* no index holds an entry whose primary key has no stored Bid, and after a
\* remove no index holds an entry of the removed key.
C2_BidIndexEntries ==
    /\ \A name \in BidIndexFields :
           /\ \A k \in DOMAIN bidStore :
                  Cardinality({e \in bidIdx[name] : e[2] = k}) = 1
           /\ \A e \in bidIdx[name] : e[2] \in DOMAIN bidStore
    /\ last.op = "bids.remove" =>
           \A name \in BidIndexFields : \A e \in bidIdx[name] : e[2] # last.arg[1]

\* A stored Bid was removed while another Bid stays stored.
C2_Witness ==
    /\ last.op = "bids.remove"
    /\ last.old # None
    /\ DOMAIN bidStore # {}

\* C3: when an Ask stored under k with price p1 is saved again under k with
\* price p2 # p1, the (collection, price) index afterwards holds k under
\* (collection, p2), no longer holds k under (collection, p1), and the
\* entries of every other key are unchanged.
C3_RepriceRelocates ==
    [][\A k \in DOMAIN askStore \cap DOMAIN askStore' :
           askStore[k].price # askStore'[k].price =>
               /\ <<<<k[1], askStore'[k].price>>, k>> \in askIdx'.collection_price
               /\ <<<<k[1], askStore[k].price>>, k>> \notin askIdx'.collection_price
               /\ {e \in askIdx'.collection_price : e[2] # k}
                      = {e \in askIdx.collection_price : e[2] # k}]_vars

\* A stored Ask was re-saved at another price while a second Ask is stored.
C3_Witness ==
    /\ last.op = "asks.save"
    /\ last.old # None
    /\ last.old[1].price # last.arg[1].price
    /\ Cardinality(DOMAIN askStore) = 2

\* C4: for every Ask or Bid r and block time t, is_expired(r, t) is true
\* exactly when t >= r.expires_at (true at t = r.expires_at), whatever the
\* other fields of r are.
C4_IsExpiredIffReached ==
    probe.out # None =>
        probe.out[1] = (probe.time >= probe.order[1].expires_at)

\* is_expired was evaluated at the expiry instant itself.
C4_Witness ==
    /\ probe.out = Some(TRUE)
    /\ probe.time = probe.order[1].expires_at

\* C5: the Ask store holds at most one Ask per (collection, token_id) and
\* the Bid store at most one Bid per (collection, token_id, bidder); a save
\* to a key that holds a record replaces it: a load of the key then returns
\* the saved record and the number of primary records has not grown.
C5_OneRecordPerKey ==
    [][/\ \A c \in Collections, t \in TokenIds :
              Cardinality({k \in DOMAIN askStore' :
                  askStore'[k].collection = c /\ askStore'[k].token_id = t}) <= 1
       /\ \A c \in Collections, t \in TokenIds, b \in Addrs :
              Cardinality({k \in DOMAIN bidStore' :
                  /\ bidStore'[k].collection = c
                  /\ bidStore'[k].token_id = t
                  /\ bidStore'[k].bidder = b}) <= 1
       /\ last'.op = "asks.save" =>
              LET a == last'.arg[1]
                  k == <<a.collection, a.token_id>>
              IN  /\ may_load(askStore', k) = Some(a)
                  /\ k \in DOMAIN askStore =>
                         Cardinality(DOMAIN askStore') = Cardinality(DOMAIN askStore)
                  /\ Cardinality(DOMAIN askStore') <= Cardinality(DOMAIN askStore) + 1
       /\ last'.op = "bids.save" =>
              LET b == last'.arg[1]
                  k == <<b.collection, b.token_id, b.bidder>>
              IN  /\ may_load(bidStore', k) = Some(b)
                  /\ k \in DOMAIN bidStore =>
                         Cardinality(DOMAIN bidStore') = Cardinality(DOMAIN bidStore)
                  /\ Cardinality(DOMAIN bidStore') <= Cardinality(DOMAIN bidStore) + 1]_vars

\* A stored Ask was replaced by a different Ask of the same key while the
\* stores hold two Asks and two Bids.
C5_Witness ==
    /\ last.op = "asks.save"
    /\ last.old # None
    /\ last.old # last.arg
    /\ Cardinality(DOMAIN askStore) = 2
    /\ Cardinality(DOMAIN bidStore) = 2

\* C6: when a Bid is saved while a Bid of another bidder on the same
\* (collection, token_id) is stored, both are stored afterwards, the first
\* unchanged, and a scan of the (collection, token_id) index at that pair
\* yields both primary keys, each loading its own record.
C6_BothBiddersKept ==
    [][last'.op = "bids.save" =>
           LET b2 == last'.arg[1]
               scan == BidScan(bidIdx', "collection_token_id",
                               BidIndexValueBytes("collection_token_id",
                                                  <<b2.collection, b2.token_id>>))
           IN  \A k1 \in DOMAIN bidStore :
                   LET b1 == bidStore[k1]
                   IN  (/\ b1.collection = b2.collection
                        /\ b1.token_id = b2.token_id
                        /\ b1.bidder # b2.bidder) =>
                           /\ may_load(bidStore', <<b1.collection, b1.token_id, b1.bidder>>)
                                  = Some(b1)
                           /\ may_load(bidStore', <<b2.collection, b2.token_id, b2.bidder>>)
                                  = Some(b2)
                           /\ {<<b1.collection, b1.token_id, b1.bidder>>,
                               <<b2.collection, b2.token_id, b2.bidder>>}
                                  \subseteq ScanKeys(scan)
                           /\ \A k \in ScanKeys(scan) :
                                  /\ k \in DOMAIN bidStore'
                                  /\ bidStore'[k].bidder = k[3]]_vars

\* Two Bids of different bidders on one (collection, token_id) are stored,
\* one of them just saved.
C6_Witness ==
    /\ last.op = "bids.save"
    /\ \E k1, k2 \in DOMAIN bidStore :
           /\ k1[1] = k2[1] /\ k1[2] = k2[2] /\ k1[3] # k2[3]
           /\ bidStore[k2] = last.arg[1]

\* The bidder an entry of the bidder / (bidder, expiry-seconds) index is under.
EntryBidder(name, e) == IF name = "bidder" THEN e[1] ELSE e[1][1]

\* C7: whenever no Bid of a bidder B is stored, the scan of the bidder index
\* at B and the scan of the (bidder, expiry-seconds) index over first
\* component B are empty; and removing a Bid of B leaves the entries of every
\* other bidder in both indices unchanged.
C7_BidderIndicesEmptied ==
    [][/\ \A B \in Addrs :
              (\A k \in DOMAIN bidStore' : bidStore'[k].bidder # B) =>
                  /\ BidScan(bidIdx', "bidder", LenPrefix(AddrKey(B))) = <<>>
                  /\ BidScan(bidIdx', "bidder_expires_at", LenPrefix(AddrKey(B))) = <<>>
       /\ (last'.op = "bids.remove" /\ last'.old # None) =>
              \A name \in {"bidder", "bidder_expires_at"} :
                  {e \in bidIdx'[name] : EntryBidder(name, e) # last'.old[1].bidder}
                      = {e \in bidIdx[name] : EntryBidder(name, e) # last'.old[1].bidder}]_vars

\* The last Bid of a bidder was removed while another bidder's Bid is stored.
C7_Witness ==
    /\ last.op = "bids.remove"
    /\ last.old # None
    /\ \A k \in DOMAIN bidStore : bidStore[k].bidder # last.old[1].bidder
    /\ DOMAIN bidStore # {}

NonDecreasing(seq) == \A i, j \in 1..Len(seq) : i < j => seq[i] <= seq[j]

\* C8: a scan of the (collection, price) index restricted to one collection
\* C, for Asks and for Bids, yields only records of collection C, in
\* non-decreasing order of numeric price, however the records were saved.
C8_PriceOrderedBook ==
    \A C \in Collections :
        LET asksOfC == AskScan(askIdx, "collection_price", LenPrefix(AddrKey(C)))
            bidsOfC == BidScan(bidIdx, "collection_price", LenPrefix(AddrKey(C)))
        IN  /\ \A i \in 1..Len(asksOfC) :
                   /\ asksOfC[i][2] \in DOMAIN askStore
                   /\ askStore[asksOfC[i][2]].collection = C
            /\ NonDecreasing([i \in 1..Len(asksOfC) |-> askStore[asksOfC[i][2]].price])
            /\ \A i \in 1..Len(bidsOfC) :
                   /\ bidsOfC[i][2] \in DOMAIN bidStore
                   /\ bidStore[bidsOfC[i][2]].collection = C
            /\ NonDecreasing([i \in 1..Len(bidsOfC) |-> bidStore[bidsOfC[i][2]].price])

\* In one collection the Ask and the Bid with the smaller primary key carry
\* the larger price, the Bid's price set by an update; the other collection
\* holds records too.
C8_Witness ==
    /\ <<1, 1>> \in DOMAIN askStore /\ <<1, 2>> \in DOMAIN askStore
    /\ askStore[<<1, 1>>].price = 10 /\ askStore[<<1, 2>>].price = 9
    /\ <<1, 1, 1>> \in DOMAIN bidStore /\ <<1, 1, 2>> \in DOMAIN bidStore
    /\ bidStore[<<1, 1, 1>>].price = 10 /\ bidStore[<<1, 1, 2>>].price = 9
    /\ last.op = "bids.save" /\ last.old # None
    /\ last.old[1].price # last.arg[1].price

NoDuplicates(list) == \A i, j \in 1..Len(list) : i # j => list[i] # list[j]

\* C9: in each hook registry, add(a) of a registered address fails as a
\* duplicate (HookAlreadyRegistered), remove(a) of an address that is not
\* registered fails as not found (HookNotRegistered, or NotFound when the
\* registry was never saved); a failing call leaves the registry unchanged;
\* removing the only listener leaves the registry empty; and no address is
\* ever registered twice.
C9_HookAddRemove ==
    [][/\ last'.op = "add_hook" =>
              LET h == last'.arg[1][1]
                  a == last'.arg[1][2]
              IN  /\ Contains(HookList(hooks[HookNamespace(h)]), a) =>
                         last'.result = "HookAlreadyRegistered"
                  /\ last'.result # "Ok" => hooks' = hooks
       /\ last'.op = "remove_hook" =>
              LET h == last'.arg[1][1]
                  a == last'.arg[1][2]
              IN  /\ ~Contains(HookList(hooks[HookNamespace(h)]), a) =>
                         last'.result \in {"HookNotRegistered", "NotFound"}
                  /\ last'.result # "Ok" => hooks' = hooks
                  /\ HookList(hooks[HookNamespace(h)]) = <<a>> => HookList(hooks'[HookNamespace(h)]) = <<>>
       /\ \A h \in HookRegistries : NoDuplicates(HookList(hooks'[HookNamespace(h)]))]_vars

\* An add of an address already in a registry was refused.
C9_Witness ==
    /\ last.op = "add_hook"
    /\ last.result = "HookAlreadyRegistered"
    /\ Contains(HookList(hooks[HookNamespace(last.arg[1][1])]), last.arg[1][2])

Coherent(store, idx, map, fields) ==
    \A name \in fields :
        idx[name] = {<<IndexFn(map, name, k, store[k]), k>> : k \in DOMAIN store}

C13_BidderExpirySeconds ==
    /\ bidIdx.bidder_expires_at =
           {<<<<bidStore[k].bidder, bidStore[k].expires_at \div NanosPerSecond>>, k>> :
                k \in DOMAIN bidStore}
    /\ Cardinality(bidIdx.bidder_expires_at) = Cardinality(DOMAIN bidStore)
    /\ \A B \in Addrs :
           LET scan == BidScan(bidIdx, "bidder_expires_at", LenPrefix(AddrKey(B)))
           IN  /\ ScanKeys(scan) = {k \in DOMAIN bidStore : bidStore[k].bidder = B}
               /\ Len(scan) = Cardinality(ScanKeys(scan))
               /\ NonDecreasing([i \in 1..Len(scan) |->
                                    bidStore[scan[i][2]].expires_at \div NanosPerSecond])

\* One bidder holds two Bids whose expiries differ only below the second.
C13_Witness ==
    \E k1, k2 \in DOMAIN bidStore :
        /\ k1 # k2
        /\ bidStore[k1].bidder = bidStore[k2].bidder
        /\ bidStore[k1].expires_at # bidStore[k2].expires_at
        /\ bidStore[k1].expires_at \div NanosPerSecond
               = bidStore[k2].expires_at \div NanosPerSecond

\* C14: the parameter store holds one SudoParams record that changes only
\* by replacement as a whole: after a save of P the stored record is P in
\* every field, and no operation on Asks, Bids or hook registries changes
\* the stored parameters.
C14_ParamsReplacedWhole ==
    [][/\ last'.op = "sudo_params.save" => sudoParams' = last'.arg
       /\ last'.op # "sudo_params.save" => sudoParams' = sudoParams]_vars

\* Stored parameters were replaced by a record that differs in every field.
C14_Witness ==
    /\ last.op = "sudo_params.save"
    /\ last.old # None
    /\ last.old[1].operators # last.arg[1].operators
    /\ last.old[1].listing_fee # last.arg[1].listing_fee
    /\ DOMAIN askStore # {}

\* C15: when an Ask is saved while another Ask of the same collection and
\* price (another token_id) is stored, both appear in the (collection,
\* price) index under that value; removing or re-pricing an Ask leaves the
\* entry of every other Ask that shared its value in place.
C15_SharedValueNoCollision ==
    [][/\ last'.op = "asks.save" =>
              LET a2 == last'.arg[1]
              IN  \A k1 \in DOMAIN askStore :
                      LET a1 == askStore[k1]
                      IN  (/\ a1.collection = a2.collection
                           /\ a1.price = a2.price
                           /\ a1.token_id # a2.token_id) =>
                              {<<<<a1.collection, a1.price>>, <<a1.collection, a1.token_id>>>>,
                               <<<<a2.collection, a2.price>>, <<a2.collection, a2.token_id>>>>}
                                  \subseteq askIdx'.collection_price
       /\ (last'.op \in {"asks.save", "asks.remove"} /\ last'.old # None) =>
              LET o == last'.old[1]
              IN  \A k2 \in DOMAIN askStore :
                      (/\ k2 # <<o.collection, o.token_id>>
                       /\ askStore[k2].collection = o.collection
                       /\ askStore[k2].price = o.price) =>
                          <<<<o.collection, o.price>>, k2>> \in askIdx'.collection_price]_vars

\* An Ask was removed while another Ask of its collection and price stays
\* stored.
C15_Witness ==
    /\ last.op = "asks.remove"
    /\ last.old # None
    /\ \E k2 \in DOMAIN askStore :
           /\ askStore[k2].collection = last.old[1].collection
           /\ askStore[k2].price = last.old[1].price

\* The values an Ask field outside the index functions can be changed to.
UnindexedChanges(a) ==
    { [a EXCEPT !.is_active = ~@],
      [a EXCEPT !.expires_at = @ + 1],
      [a EXCEPT !.sale_type = IF @ = "Auction" THEN "FixedPrice" ELSE "Auction"],
      [a EXCEPT !.funds_recipient = IF @ = None THEN Some(2) ELSE None],
      [a EXCEPT !.reserve_for = IF @ = None THEN Some(1) ELSE None],
      [a EXCEPT !.finders_fee_bps = IF @ = None THEN Some(50) ELSE None] }

\* C16: re-saving a stored Ask with a change only to fields no index
\* projects (is_active, expires_at, sale_type, funds_recipient, reserve_for,
\* finders_fee_bps) leaves the entries of all three Ask indices unchanged,
\* and toggling is_active does not change is_expired at any block time.
C16_UnindexedChangeKeepsIndices ==
    [][(/\ last'.op = "asks.save"
        /\ last'.old # None
        /\ last'.old[1].collection = last'.arg[1].collection
        /\ last'.old[1].token_id = last'.arg[1].token_id
        /\ last'.old[1].seller = last'.arg[1].seller
        /\ last'.old[1].price = last'.arg[1].price) =>
           LET a == last'.arg[1]
               key == ask_key(a.collection, a.token_id)
           IN  /\ askIdx' = askIdx
               /\ \A b \in UnindexedChanges(a) :
                      replace_idx(askIdx', "asks", AskIndicies_get_indexes,
                                  key, Some(b), Some(a)) = askIdx'
               /\ \A t \in BlockTimes :
                      is_expired([a EXCEPT !.is_active = ~@], t) = is_expired(a, t)]_vars

\* A stored Ask was re-saved with every unindexed field changed, is_active
\* among them, and the indexed fields kept.
C16_Witness ==
    /\ last.op = "asks.save"
    /\ last.old # None
    /\ last.old[1].seller = last.arg[1].seller
    /\ last.old[1].price = last.arg[1].price
    /\ last.old[1].is_active # last.arg[1].is_active
    /\ last.old[1].expires_at # last.arg[1].expires_at
    /\ last.old[1].sale_type # last.arg[1].sale_type
    /\ Cardinality(DOMAIN askStore) = 2

\* C17: the stores are independent: an operation on the Ask store leaves the
\* Bid primary table and all five Bid indices unchanged, an operation on the
\* Bid store leaves the Ask primary table and all three Ask indices
\* unchanged, and an add or remove on one hook registry leaves the other two
\* registries unchanged; no two tables, indices or registries share a
\* storage namespace.
C17_StoresIndependent ==
    [][/\ last'.op \in {"asks.save", "asks.remove", "asks.load"} =>
              bidStore' = bidStore /\ bidIdx' = bidIdx
       /\ last'.op \in {"bids.save", "bids.remove", "bids.load"} =>
              askStore' = askStore /\ askIdx' = askIdx
       /\ last'.op \in {"add_hook", "remove_hook"} =>
              \A r \in HookRegistries \ {last'.arg[1][1]} :
                  hooks'[HookNamespace(r)] = hooks[HookNamespace(r)]
       /\ Cardinality(Namespaces(asks_namespaces)) = 4
       /\ Cardinality(Namespaces(bids_namespaces)) = 6
       /\ Namespaces(asks_namespaces) \cap Namespaces(bids_namespaces) = {}
       /\ Cardinality({HookNamespace(r) : r \in HookRegistries}) = 3]_vars

\* A listener was added to one registry while Asks and Bids are stored and
\* another registry holds a listener.
C17_Witness ==
    /\ last.op = "add_hook"
    /\ last.result = "Ok"
    /\ \E r \in HookRegistries \ {last.arg[1][1]} : HookList(hooks[HookNamespace(r)]) # <<>>
    /\ DOMAIN askStore # {}
    /\ DOMAIN bidStore # {}

\* C18: save and remove compose on both stores: saving the record just
\* saved again under its key leaves the primary table and every index as
\* they are (idempotence), and removing a key just saved, which held no
\* record before, restores the primary table and every index to their state
\* before the save (round trip).
C18_SaveIdempotentAndRoundTrip ==
    [][/\ last'.op = "asks.save" =>
              LET a == last'.arg[1]
                  key == ask_key(a.collection, a.token_id)
                  again == may_load(askStore', key)
              IN  /\ replace_primary(askStore', key, Some(a)) = askStore'
                  /\ replace_idx(askIdx', "asks", AskIndicies_get_indexes,
                                 key, Some(a), again) = askIdx'
                  /\ last'.old = None =>
                         /\ replace_primary(askStore', key, None) = askStore
                         /\ replace_idx(askIdx', "asks", AskIndicies_get_indexes,
                                        key, None, again) = askIdx
       /\ last'.op = "bids.save" =>
              LET b == last'.arg[1]
                  key == bid_key(b.collection, b.token_id, b.bidder)
                  again == may_load(bidStore', key)
              IN  /\ replace_primary(bidStore', key, Some(b)) = bidStore'
                  /\ replace_idx(bidIdx', "bids", BidIndicies_get_indexes,
                                 key, Some(b), again) = bidIdx'
                  /\ last'.old = None =>
                         /\ replace_primary(bidStore', key, None) = bidStore
                         /\ replace_idx(bidIdx', "bids", BidIndicies_get_indexes,
                                        key, None, again) = bidIdx]_vars

\* A Bid was saved under a key that held no record, next to another Bid of
\* the same collection and price and to a stored Ask.
C18_Witness ==
    /\ last.op = "bids.save"
    /\ last.old = None
    /\ \E k \in DOMAIN bidStore :
           /\ bidStore[k] # last.arg[1]
           /\ bidStore[k].collection = last.arg[1].collection
           /\ bidStore[k].price = last.arg[1].price
    /\ DOMAIN askStore # {}

====
